---- MODULE Spec2Model ----
(***************************************************************************)
(* A model of the agent core of the repository: the AgentState record      *)
(* (agent/memory.py), the planner heuristics (agent/reasoning.py), the     *)
(* critic's revision policy (agent/reflection.py), the tool registry's     *)
(* retry loop (tools/registry.py), the orchestrator's run loop             *)
(* (agent/orchestrator.py), the second implementation of that loop         *)
(* (agent/reasoning_loop.py), the calculator tool (tools/utility_tools.py) *)
(* and the tool-usage metric (evaluation/metrics.py).                      *)
(*                                                                         *)
(* The specifications share the variables:                                 *)
(*   SpecState    an AgentState driven by arbitrary method calls           *)
(*   SpecRun      one call of AgentOrchestrator.run                        *)
(*   SpecRegistry register / execute calls on a ToolRegistry               *)
(*   SpecCritic   reflect / should_revise calls on the critic              *)
(*   SpecRetrieve one call of AgentOrchestrator._retrieve                  *)
(*   SpecCalculator one call of CalculatorTool.execute                     *)
(*   SpecPlanner  one call of ReasoningPlanner.identify_collections        *)
(*   SpecLoop     one call of ReasoningAgent.run                           *)
(*   SpecPair     AgentOrchestrator.run, then ReasoningAgent.run           *)
(*   SpecEvaluate AgentOrchestrator.run, then evaluate_tool_usage          *)
(*                                                                         *)
(* Text is a sequence of one-character strings; a confidence score is an   *)
(* integer number of tenths (0.7 is 7).                                    *)
(***************************************************************************)
EXTENDS Integers, Sequences, FiniteSets, TLC

\* ---------------------------------------------------------------- bounds
\* largest max_iterations / MAX_REASONING_STEPS value tried
MaxN == 3
\* longest reasoning trace built by free add_step calls (SpecState)
MaxSteps == 3
\* how far free increment_iteration calls may run past max_iterations
MaxOver == 2

\* ------------------------------------------------------------- constants
\* current_answer: Optional[str] = None; generated answers are 1, 2, ...
None == 0
\* MIN_CONFIDENCE_SCORE default "0.7", in tenths
MIN_CONFIDENCE_SCORE == 7
\* TOP_K default "5"
TOP_K == 5
\* top_k=3 passed to retrieve_relevant_chunks
PER_COLLECTION_TOP_K == 3
\* max_attempts = 3 in ToolRegistry.execute
max_attempts == 3

\* ------------------------------------------------------------------ text
Q_WhatIsRAG == <<"W","h","a","t"," ","i","s"," ","R","A","G","?">>
Q_Calc == <<"C","a","l","c","u","l","a","t","e"," ","2","+","2">>
Q_Lecture == <<"W","e","e","k"," ","3"," ","L","E","C","T","U","R","E">>
Q_ListVideo == <<"l","i","s","t"," ","v","i","d","e","o">>
tool_keywords ==
  <<
    <<"c","a","l","c","u","l","a","t","e">>,
    <<"c","o","m","p","u","t","e">>,
    <<"m","a","t","h">>,
    <<"s","e","a","r","c","h">>,
    <<"f","i","n","d">>,
    <<"l","o","o","k","u","p">>,
    <<"d","a","t","e">>,
    <<"t","i","m","e">>,
    <<"t","o","d","a","y">>,
    <<"f","o","r","m","a","t">>,
    <<"t","a","b","l","e">>,
    <<"l","i","s","t">> >>
course_keywords ==
  <<
    <<"a","c","a","d","e","m","y">>,
    <<"c","o","u","r","s","e">>,
    <<"l","e","s","s","o","n">>,
    <<"w","e","e","k">>,
    <<"h","o","m","e","w","o","r","k">>,
    <<"l","e","c","t","u","r","e">>,
    <<"m","a","t","e","r","i","a","l">> >>
transcript_keywords ==
  <<
    <<"v","i","d","e","o">>,
    <<"t","r","a","n","s","c","r","i","p","t">>,
    <<"l","e","c","t","u","r","e">>,
    <<"r","e","c","o","r","d","i","n","g">> >>
UpperCase == <<"A","B","C","D","E","F","G","H","I","J","K","L","M","N","O","P","Q","R","S","T","U","V","W","X","Y","Z">>
LowerCase == <<"a","b","c","d","e","f","g","h","i","j","k","l","m","n","o","p","q","r","s","t","u","v","w","x","y","z">>

Queries == {Q_WhatIsRAG, Q_Calc, Q_Lecture, Q_ListVideo}

\* str.lower() on one character
lower_char(c) ==
  IF \E i \in 1..Len(UpperCase) : UpperCase[i] = c
    THEN LowerCase[CHOOSE i \in 1..Len(UpperCase) : UpperCase[i] = c]
    ELSE c

\* str.lower()
lower(s) == [i \in 1..Len(s) |-> lower_char(s[i])]

\* mutant: only the keyword's first character is compared
contains_first_char(s, kw) ==
  \E i \in 0..(Len(s) - Len(kw)) : s[i + 1] = kw[1]

\* Python's  kw in s  on strings: kw occurs as a contiguous substring
contains(s, kw) ==
  \E i \in 0..(Len(s) - Len(kw)) :
    \A j \in 1..Len(kw) : s[i + j] = kw[j]

\* any(keyword in query_lower for keyword in keywords)
any_keyword(query_lower, keywords) ==
  \E k \in 1..Len(keywords) : contains(query_lower, keywords[k])

\* ------------------------------------------------------------ AgentState
StepKinds == {"plan", "retrieve", "tool_call", "generate", "reflect"}

\* mutant: the steps are numbered from 0
add_step_zero_based(steps, step_type) ==
  Append(steps, [step_number |-> Len(steps), step_type |-> step_type])

\* AgentState.add_step: the new trace
add_step(steps, step_type) ==
  Append(steps, [step_number |-> Len(steps) + 1, step_type |-> step_type])

\* mutant: completion only when the counter exceeds the bound
increment_iteration_gt(it, mx, ic) ==
  [iteration |-> it + 1,
   is_complete |-> IF it + 1 > mx THEN TRUE ELSE ic]

\* mutant: the bound is tested before the counter is increased
increment_iteration_pre(it, mx, ic) ==
  [iteration |-> it + 1,
   is_complete |-> IF it >= mx THEN TRUE ELSE ic]

\* mutant: the counter is increased twice
increment_iteration_double(it, mx, ic) ==
  [iteration |-> it + 2,
   is_complete |-> IF it + 2 >= mx THEN TRUE ELSE ic]

\* AgentState.increment_iteration: the new (iteration, is_complete)
increment_iteration(it, mx, ic) ==
  [iteration |-> it + 1,
   is_complete |-> IF it + 1 >= mx THEN TRUE ELSE ic]

\* mutant: the completion flag is not consulted
\* mutant: the budget test admits iteration = max_iterations
should_continue_le(ic, it, mx) == (~ic) /\ it <= mx

should_continue_noflag(ic, it, mx) ==
  IF it >= mx THEN FALSE ELSE TRUE

\* AgentState.should_continue
should_continue(ic, it, mx) ==
  IF ic THEN FALSE
  ELSE IF it >= mx THEN FALSE
  ELSE TRUE

\* --------------------------------------------------------------- planner
\* the keys of the JSON object the planner is asked for
PlannerFields == {"main_goal", "sub_tasks", "required_information", "complexity"}

\* the JSON objects the planner completion returns: by the keys present
PlannerOutputs ==
  {PlannerFields, PlannerFields \ {"complexity"}, {"main_goal"}, {}}

\* ReasoningPlanner.plan, the parse: result["main_goal"], result["sub_tasks"],
\* result["required_information"], result["complexity"] raise KeyError for an
\* absent key
plan(out) == [raised |-> ~(PlannerFields \subseteq out)]

\* ReasoningPlanner.should_use_tools
should_use_tools(q) == any_keyword(lower(q), tool_keywords)

\* mutant: the transcript partition is tested first
identify_collections_transcripts_first(q) ==
  LET query_lower == lower(q)
      c1 == IF any_keyword(query_lower, transcript_keywords)
              THEN <<"transcripts">> ELSE <<>>
      c2 == IF any_keyword(query_lower, course_keywords)
              THEN Append(c1, "ai_academy_course") ELSE c1
  IN IF c2 = <<>> THEN <<"ai_academy_course">> ELSE c2

\* ReasoningPlanner.identify_collections
identify_collections(q) ==
  LET query_lower == lower(q)
      c1 == IF any_keyword(query_lower, course_keywords)
              THEN <<"ai_academy_course">> ELSE <<>>
      c2 == IF any_keyword(query_lower, transcript_keywords)
              THEN Append(c1, "transcripts") ELSE c1
  IN IF c2 = <<>> THEN <<"ai_academy_course">> ELSE c2

\* ---------------------------------------------------------------- critic
\* A ReflectionResult: the lists are kept by their lengths, id names the
\* critique text (the pass that produced it).
Reflection(c, sat, s, w) ==
  [confidence_score |-> c, is_satisfactory |-> sat,
   strengths |-> s, weaknesses |-> w]

\* the critiques tried: an acceptable one, one for each revision condition
\* alone, and one at the threshold with as many weaknesses as strengths
Reflections ==
  {Reflection(8, TRUE, 1, 0),
   Reflection(6, TRUE, 1, 0),
   Reflection(8, FALSE, 1, 0),
   Reflection(8, TRUE, 1, 2),
   Reflection(7, TRUE, 1, 1)}

NoReflection ==
  [confidence_score |-> 0, is_satisfactory |-> FALSE,
   strengths |-> 0, weaknesses |-> 0]

\* the keys of the JSON object the critic is asked for that the model keeps
CriticFields == {"confidence_score", "is_satisfactory", "strengths", "weaknesses"}

\* the JSON objects the critic completion returns: every key present, or none
CriticOutputs ==
  {[present |-> CriticFields, value |-> r] : r \in Reflections}
    \cup {[present |-> {}, value |-> NoReflection]}

\* result.get("confidence_score", 0.5), in tenths
DefaultConfidence == 5

\* SelfReflectionCritic.reflect, the parse: result.get(key, default)
reflect(out) ==
  Reflection(
    IF "confidence_score" \in out.present THEN out.value.confidence_score
                                          ELSE DefaultConfidence,
    IF "is_satisfactory" \in out.present THEN out.value.is_satisfactory ELSE FALSE,
    IF "strengths" \in out.present THEN out.value.strengths ELSE 0,
    IF "weaknesses" \in out.present THEN out.value.weaknesses ELSE 0)

\* mutant: as many weaknesses as strengths already ask for revision
should_revise_weak_ge(reflection) ==
  IF reflection.confidence_score < MIN_CONFIDENCE_SCORE THEN TRUE
  ELSE IF ~reflection.is_satisfactory THEN TRUE
  ELSE IF reflection.weaknesses >= reflection.strengths THEN TRUE
  ELSE FALSE

\* SelfReflectionCritic.should_revise
should_revise(reflection) ==
  IF reflection.confidence_score < MIN_CONFIDENCE_SCORE THEN TRUE
  ELSE IF ~reflection.is_satisfactory THEN TRUE
  ELSE IF reflection.weaknesses > reflection.strengths THEN TRUE
  ELSE FALSE

\* -------------------------------------------------------------- registry
ToolNames == {"CalculatorTool", "GetCurrentDateTool"}
UnknownName == "NoSuchTool"
\* two tool objects may carry the same name (BaseTool.__init__: the class name)
ToolIds == {1, 2}
NoTool == [name |-> "", id |-> 0]

\* what tool.execute does on one attempt
Outcomes == {"ok", "fail", "raise"}
\* one entry per attempt the registry can make
Behaviours == [1..max_attempts -> Outcomes]

\* mutant: a name that is already registered keeps its first tool
register_keep_first(reg, tool) ==
  [n \in (DOMAIN reg) \cup {tool.name} |->
     IF n \in DOMAIN reg THEN reg[n] ELSE tool]

\* ToolRegistry.register: the new dict
register(reg, tool) ==
  [n \in (DOMAIN reg) \cup {tool.name} |->
     IF n = tool.name THEN tool ELSE reg[n]]

\* ToolRegistry.get_tool (dict.get: None when absent)
get_tool(reg, name) == IF name \in DOMAIN reg THEN reg[name] ELSE NoTool

\* The ToolResult values: attempt is the 0-based attempt whose tool call
\* produced the result, -1 for a result the registry built itself.
ToolResult(success, attempt, error, timed) ==
  [success |-> success, attempt |-> attempt, error |-> error, timed |-> timed]

\* mutant: the loop does not stop at the first success
retry_loop_nostop(beh, attempt, invocations, sleeps) ==
  LET last == max_attempts - 1
      o == beh[last + 1]
  IN [result |-> IF o = "raise" THEN ToolResult(FALSE, -1, "exhausted", FALSE)
                 ELSE ToolResult(o = "ok", last, IF o = "ok" THEN "none" ELSE "tool", o = "ok"),
      invocations |-> max_attempts,
      sleeps |-> [k \in 1..last |-> 2 ^ (k - 1)]]

RECURSIVE retry_loop_sleep_last(_, _, _, _)
\* mutant: the backoff sleep is also made after the last allowed attempt
retry_loop_sleep_last(beh, attempt, invocations, sleeps) ==
  IF attempt >= max_attempts
    THEN [result |-> ToolResult(FALSE, -1, "exhausted", FALSE),
          invocations |-> invocations, sleeps |-> sleeps]
  ELSE IF beh[attempt + 1] = "ok"
    THEN [result |-> ToolResult(TRUE, attempt, "none", TRUE),
          invocations |-> invocations + 1, sleeps |-> sleeps]
  ELSE retry_loop_sleep_last(beh, attempt + 1, invocations + 1,
                             Append(sleeps, 2 ^ attempt))

RECURSIVE retry_loop(_, _, _, _)
\* ToolRegistry.execute, the retry loop: for attempt in range(max_attempts)
retry_loop(beh, attempt, invocations, sleeps) ==
  IF attempt >= max_attempts
    THEN [result |-> ToolResult(FALSE, -1, "exhausted", FALSE),
          invocations |-> invocations, sleeps |-> sleeps]
  ELSE
    LET o == beh[attempt + 1] IN
    IF o = "raise" THEN
      IF attempt < max_attempts - 1
        THEN retry_loop(beh, attempt + 1, invocations + 1,
                        Append(sleeps, 2 ^ attempt))
        ELSE [result |-> ToolResult(FALSE, -1, "exhausted", FALSE),
              invocations |-> invocations + 1, sleeps |-> sleeps]
    ELSE IF o = "ok" THEN
      [result |-> ToolResult(TRUE, attempt, "none", TRUE),
       invocations |-> invocations + 1, sleeps |-> sleeps]
    ELSE
      IF attempt < max_attempts - 1
        THEN retry_loop(beh, attempt + 1, invocations + 1,
                        Append(sleeps, 2 ^ attempt))
        ELSE [result |-> ToolResult(FALSE, attempt, "tool", FALSE),
              invocations |-> invocations + 1, sleeps |-> sleeps]

\* mutant: an absent tool is retried like a failing one
execute_retry_missing(reg, tool_name, beh) ==
  LET tool == get_tool(reg, tool_name) IN
  IF tool = NoTool
    THEN [result |-> ToolResult(FALSE, -1, "not_found", FALSE),
          invocations |-> 0, sleeps |-> <<1, 2>>, tool |-> NoTool]
    ELSE [tool |-> tool] @@ retry_loop(beh, 0, 0, <<>>)

\* ToolRegistry.execute: the result, the number of tool.execute calls made,
\* the time.sleep arguments in order, and the tool object used
execute(reg, tool_name, beh) ==
  LET tool == get_tool(reg, tool_name) IN
  IF tool = NoTool
    THEN [result |-> ToolResult(FALSE, -1, "not_found", FALSE),
          invocations |-> 0, sleeps |-> <<>>, tool |-> NoTool]
    ELSE [tool |-> tool] @@ retry_loop(beh, 0, 0, <<>>)

\* ------------------------------------------------------------ calculator
\* deepest nesting of the expressions given to the calculator
MaxDepth == 1

\* the keys of allowed_names
allowed_names == {"abs", "round", "min", "max", "sum", "pow", "sqrt", "pi", "e"}

\* the names the expressions tried refer to: two of the whitelist, a
\* built-in and the import hook
ExprNames == {"abs", "pi", "open", "__import__"}

\* attribute names tried
ExprAttrs == {"real", "__class__"}

\* Expressions, after the "%" and " of " rewriting (none of those tried
\* contains either): a number, a name, l + r, l or r, obj.attr, fn(arg), and
\* the statement  import os.
Atoms ==
  {[kind |-> "num", v |-> n] : n \in {0, 1}}
    \cup {[kind |-> "name", id |-> n] : n \in ExprNames}

RECURSIVE ExprsOfDepth(_)
ExprsOfDepth(d) ==
  IF d = 0 THEN Atoms
  ELSE LET sub == ExprsOfDepth(d - 1) IN
    sub
      \cup {[kind |-> "add", l |-> a, r |-> b] : a \in sub, b \in sub}
      \cup {[kind |-> "or", l |-> a, r |-> b] : a \in sub, b \in sub}
      \cup {[kind |-> "attr", obj |-> a, attr |-> t] : a \in sub, t \in ExprAttrs}
      \cup {[kind |-> "call", fn |-> n, arg |-> a] : n \in ExprNames, a \in sub}

Exprs == ExprsOfDepth(MaxDepth) \cup {[kind |-> "import"]}

NoExpr == [kind |-> "none"]

\* what eval yields: a value, by its type (a number with its value, a
\* whitelisted function, the class of a number, any other object), or the
\* exception raised
Value(t, v) == [raised |-> FALSE, error |-> "none", t |-> t, v |-> v]
Raised(error) == [raised |-> TRUE, error |-> error, t |-> "none", v |-> 0]

\* bool(value): only the number 0 is false
truthy(val) == ~(val.t = "num" /\ val.v = 0)

RECURSIVE eval(_)
\* eval(expression, {"__builtins__": {}}, allowed_names)
eval(x) ==
  CASE x.kind = "import" -> Raised("SyntaxError")
    [] x.kind = "num" -> Value("num", x.v)
    [] x.kind = "name" ->
         IF x.id \notin allowed_names THEN Raised("NameError")
         ELSE IF x.id \in {"pi", "e"} THEN Value("num", 3)
         ELSE Value("func", 0)
    [] x.kind = "add" ->
         LET a == eval(x.l) IN
         IF a.raised THEN a
         ELSE LET b == eval(x.r) IN
           IF b.raised THEN b
           ELSE IF a.t = "num" /\ b.t = "num" THEN Value("num", a.v + b.v)
           ELSE Raised("TypeError")
    [] x.kind = "or" ->
         LET a == eval(x.l) IN
         IF a.raised THEN a
         ELSE IF truthy(a) THEN a
         ELSE eval(x.r)
    [] x.kind = "attr" ->
         LET o == eval(x.obj) IN
         IF o.raised THEN o
         ELSE IF x.attr = "__class__"
           THEN (IF o.t = "num" THEN Value("class_num", 0) ELSE Value("object", 0))
         ELSE IF o.t = "num" THEN o
         ELSE IF o.t = "class_num" THEN Value("object", 0)
         ELSE Raised("AttributeError")
    [] x.kind = "call" ->
         LET f == eval([kind |-> "name", id |-> x.fn]) IN
         IF f.raised THEN f
         ELSE LET a == eval(x.arg) IN
           IF a.raised THEN a
           ELSE IF f.t = "func" /\ a.t = "num" THEN a
           ELSE Raised("TypeError")

NoCalcOut == [success |-> FALSE, error |-> "none", t |-> "none", v |-> 0]

\* CalculatorTool.execute: ToolResult(success=True, result=...) or, for any
\* exception, ToolResult(success=False, error=...)
CalculatorTool_execute(x) ==
  LET r == eval(x) IN
  [success |-> ~r.raised, error |-> r.error, t |-> r.t, v |-> r.v]

\* ------------------------------------------------------------ orchestrator
\* the max_iterations argument of run: Optional[int]
NoArg == [given |-> FALSE, value |-> 0]
IntArg(v) == [given |-> TRUE, value |-> v]

\* max_iterations or MAX_REASONING_STEPS
max_iter_of(arg, configured) ==
  IF arg.given /\ arg.value # 0 THEN arg.value ELSE configured

\* most tool calls one tool-selection completion asks for
MaxCalls == 2

Min(a, b) == IF a < b THEN a ELSE b

\* names of knowledge collections: the two the planner knows and one more
CollectionNames == {"ai_academy_course", "transcripts", "evaluation_docs"}

\* the lists of distinct target collections _retrieve can be given
CollectionLists ==
  {c \in UNION {[1..n -> CollectionNames] : n \in 1..Cardinality(CollectionNames)} :
     \A i, j \in 1..Len(c) : i # j => c[i] # c[j]}

\* what retrieve_relevant_chunks does for one collection: raise, or return
\* n <= top_k ranked chunks
RetrievalOutcomes ==
  {[raised |-> TRUE, n |-> 0]} \cup [raised : {FALSE}, n : {2, PER_COLLECTION_TOP_K}]

chunks_of(collection, n) ==
  [r \in 1..n |-> [collection |-> collection, rank |-> r]]

RECURSIVE all_docs_abort(_, _, _)
\* mutant: the first collection that raises ends the loop
all_docs_abort(colls, outs, k) ==
  IF k = 0 THEN <<>>
  ELSE IF \E j \in 1..k : outs[j].raised THEN all_docs_abort(colls, outs, k - 1)
  ELSE all_docs_abort(colls, outs, k - 1) \o chunks_of(colls[k], outs[k].n)

RECURSIVE all_docs(_, _, _)
\* AgentOrchestrator._retrieve, the loop over the first k collections:
\* a collection that raises is skipped
all_docs(colls, outs, k) ==
  IF k = 0 THEN <<>>
  ELSE all_docs(colls, outs, k - 1) \o
         (IF outs[k].raised THEN <<>> ELSE chunks_of(colls[k], outs[k].n))

\* mutant: the aggregated list is not cut
retrieve_untruncated(colls, outs) == all_docs(colls, outs, Len(colls))

\* AgentOrchestrator._retrieve: all_docs[:TOP_K]
retrieve(colls, outs) ==
  LET docs == all_docs(colls, outs, Len(colls))
  IN SubSeq(docs, 1, Min(TOP_K, Len(docs)))

\* one tool call the completion service selected: the name, whether its
\* arguments parse as JSON, and what the tool does on each attempt
ToolCalls ==
  {[name |-> "CalculatorTool", args_ok |-> TRUE, beh |-> <<"ok", "ok", "ok">>],
   [name |-> "CalculatorTool", args_ok |-> TRUE, beh |-> <<"fail", "raise", "fail">>],
   [name |-> UnknownName, args_ok |-> TRUE, beh |-> <<"ok", "ok", "ok">>],
   [name |-> "GetCurrentDateTool", args_ok |-> FALSE, beh |-> <<"ok", "ok", "ok">>]}

CallLists ==
  UNION {[1..n -> ToolCalls] : n \in 0..MaxCalls}

\* the tool-selection completion: it raises, or returns message.tool_calls
Selections ==
  {[raised |-> TRUE, calls |-> <<>>]} \cup
  {[raised |-> FALSE, calls |-> c] : c \in CallLists}

\* no tool-selection completion has been made
NoSelection == [raised |-> FALSE, calls |-> <<>>]

RECURSIVE run_calls(_, _, _, _)
\* AgentOrchestrator._call_tools, the loop over message.tool_calls from the
\* i-th call on: json.loads raising ends the loop (the outer except)
run_calls(reg, calls, i, acc) ==
  IF i > Len(calls) THEN acc
  ELSE IF ~calls[i].args_ok THEN acc
  ELSE
    LET out == execute(reg, calls[i].name, calls[i].beh) IN
    run_calls(reg, calls, i + 1,
              Append(acc, [tool |-> calls[i].name,
                           success |-> out.result.success,
                           error |-> out.result.error]))

\* mutant: the tool_call step is recorded inside the try block, so a failed
\* tool-selection completion leaves no step
call_tools_step_in_try(reg, sel) ==
  IF DOMAIN reg = {}
    THEN [tool_results |-> <<>>, step |-> FALSE]
  ELSE IF sel.raised
    THEN [tool_results |-> <<>>, step |-> FALSE]
  ELSE [tool_results |-> run_calls(reg, sel.calls, 1, <<>>), step |-> TRUE]

\* AgentOrchestrator._call_tools: the tool results, and whether the
\* tool_call step is appended (not when no tool schema is registered)
call_tools(reg, sel) ==
  IF DOMAIN reg = {}
    THEN [tool_results |-> <<>>, step |-> FALSE]
  ELSE IF sel.raised
    THEN [tool_results |-> <<>>, step |-> TRUE]
  ELSE [tool_results |-> run_calls(reg, sel.calls, 1, <<>>), step |-> TRUE]

\* AgentOrchestrator._format_reflection_feedback: the feedback text is a
\* function of the critique
format_reflection_feedback(r, id) == [id |-> id, weaknesses |-> r.weaknesses]

\* mutant: only the successful tool results are formatted
format_tool_results_success_only(trs) ==
  LET ok == SelectSeq(trs, LAMBDA tr : tr.success) IN
  [i \in 1..Len(ok) |-> [tool |-> ok[i].tool, entry |-> "result", detail |-> "result"]]

\* AgentOrchestrator._format_tool_results: one line per tool result,
\* "- tool: result" on success and "- tool: Error - error" otherwise
format_tool_results(trs) ==
  [i \in 1..Len(trs) |->
     IF trs[i].success
       THEN [tool |-> trs[i].tool, entry |-> "result", detail |-> "result"]
       ELSE [tool |-> trs[i].tool, entry |-> "Error", detail |-> trs[i].error]]

\* the empty string: current_answer or ""
EmptyText == 0 - 1

NoFeedback == [id |-> 0, weaknesses |-> 0]

NoPrompt ==
  [template |-> "none", previous_answer |-> EmptyText, feedback |-> NoFeedback,
   context |-> <<>>, tool_context |-> <<>>]

\* mutant: a revision prompt carries the oldest feedback entry
generate_prompt_first_feedback(feedback, answer, docs, trs) ==
  IF feedback # <<>>
    THEN [template |-> "revision",
          previous_answer |-> IF answer = None THEN EmptyText ELSE answer,
          feedback |-> feedback[1],
          context |-> docs, tool_context |-> format_tool_results(trs)]
    ELSE [template |-> "initial", previous_answer |-> EmptyText,
          feedback |-> NoFeedback,
          context |-> docs, tool_context |-> format_tool_results(trs)]

\* AgentOrchestrator._generate, lines 326-345: the context texts (documents,
\* then the formatted tool results when there are any) and the prompt,
\* format_revision_prompt when reflection_feedback is not empty and
\* format_answer_prompt otherwise
generate_prompt(feedback, answer, docs, trs) ==
  IF feedback # <<>>
    THEN [template |-> "revision",
          previous_answer |-> IF answer = None THEN EmptyText ELSE answer,
          feedback |-> feedback[Len(feedback)],
          context |-> docs, tool_context |-> format_tool_results(trs)]
    ELSE [template |-> "initial", previous_answer |-> EmptyText,
          feedback |-> NoFeedback,
          context |-> docs, tool_context |-> format_tool_results(trs)]

\* mutant: the record counts loop passes (iteration + 1)
log_record_passes(q, it, conf, ic, steps) ==
  [query |-> q, iteration |-> it + 1, confidence |-> conf, is_complete |-> ic,
   steps |-> Len(steps)]

\* AgentLogger.log_state: the record written
log_record(q, it, conf, ic, steps) ==
  [query |-> q, iteration |-> it, confidence |-> conf, is_complete |-> ic,
   steps |-> Len(steps)]

\* ------------------------------------------------------------------ state
VARIABLES
  \* the AgentState fields
  query, reasoning_steps, current_answer, confidence_score, iteration,
  max_iterations, is_complete, reflection_feedback,
  \* history of the calls made on the AgentState
  sc_called,     \* should_continue() has been called
  sc_result,     \* what the last should_continue() call returned
  inc_calls,     \* number of increment_iteration() calls so far
  direct_write,  \* is_complete has been assigned directly (not by a method)
  unguarded,     \* increment_iteration() was called while should_continue() was false
  \* AgentOrchestrator.run: configuration, argument, locals, position
  pc, max_iterations_arg, MAX_REASONING_STEPS, REFLECTION_ENABLED,
  needs_tools, collections, context_docs, tool_results, reflection,
  revise,        \* the local should_revise
  passes,        \* loop passes started
  generations,   \* generation phases completed
  all_revise,    \* every reflection so far was followed by should_revise = true
  trace_log,     \* the records AgentLogger.log_state has written
  retrieval_outs, \* what retrieve_relevant_chunks did for each collection of the last _retrieve
  context_pass,  \* the loop pass in which context_docs was retrieved
  prompt,        \* the user prompt the last _generate built
  selection,     \* what the last tool-selection completion returned
  completion_calls, \* calls the plan, generate and reflect phases made on the completion service
  service_failed,   \* one of those calls failed
  verdicts,      \* the should_revise results of the run so far, in order
  raise_cause,   \* why run raised: "none", "completion" or "KeyError"
  \* ToolRegistry
  tools,         \* self.tools: name -> tool
  exec_call,     \* the last execute call: name, whether registered, tool behaviour
  exec_out,      \* what that call returned and did
  calc_expr,     \* the expression given to CalculatorTool.execute
  calc_out,      \* the ToolResult it returned
  tool_meta,     \* per tool_call step of the run, its metadata["tools"] (when kept)
  eval_out,      \* what evaluate_tool_usage returned for the returned state
  first_outcome, \* how an AgentOrchestrator.run made before a ReasoningAgent.run ended
  last_registered, \* per name, the id of the tool of the latest register call (0: none)
  replaced       \* some register call named an already registered tool

state_vars ==
  <<query, reasoning_steps, current_answer, confidence_score, iteration,
    max_iterations, is_complete, reflection_feedback>>
call_vars == <<sc_called, sc_result, inc_calls, direct_write, unguarded>>
\* what the phases of the current loop pass were given
phase_vars ==
  <<retrieval_outs, context_pass, selection, prompt, completion_calls,
    service_failed, verdicts, raise_cause>>
run_vars ==
  <<pc, max_iterations_arg, MAX_REASONING_STEPS, REFLECTION_ENABLED,
    needs_tools, collections, context_docs, tool_results, reflection,
    revise, passes, generations, all_revise, trace_log, phase_vars>>
tool_vars == <<calc_expr, calc_out>>
eval_vars == <<tool_meta, eval_out>>
registry_vars ==
  <<tools, exec_call, exec_out, last_registered, replaced, tool_vars,
    first_outcome, eval_vars>>
vars == <<state_vars, call_vars, run_vars, registry_vars>>

NoExecCall == [name |-> "", registered |-> FALSE, latest |-> 0, beh |-> <<>>]
NoExecOut ==
  [result |-> ToolResult(FALSE, -1, "none", FALSE),
   invocations |-> 0, sleeps |-> <<>>, tool |-> NoTool]

\* initialize_tools(): the registry after import of the tools package
DefaultRegistry == [n \in ToolNames |-> [name |-> n, id |-> 1]]
EmptyRegistry == [n \in {} |-> NoTool]

\* AgentState(query=q, max_iterations=mx): the dataclass defaults
FreshState(q, mx) ==
  /\ query = q
  /\ reasoning_steps = <<>>
  /\ current_answer = None
  /\ confidence_score = 0
  /\ iteration = 0
  /\ max_iterations = mx
  /\ is_complete = FALSE
  /\ reflection_feedback = <<>>

NoCalls ==
  /\ sc_called = FALSE
  /\ sc_result = FALSE
  /\ inc_calls = 0
  /\ direct_write = FALSE
  /\ unguarded = FALSE

PhaseIdle ==
  /\ retrieval_outs = <<>>
  /\ context_pass = 0
  /\ selection = NoSelection
  /\ prompt = NoPrompt
  /\ completion_calls = 0
  /\ service_failed = FALSE
  /\ verdicts = <<>>
  /\ raise_cause = "none"

RunIdle(position) ==
  /\ pc = position
  /\ needs_tools = FALSE
  /\ collections = <<>>
  /\ context_docs = <<>>
  /\ tool_results = <<>>
  /\ reflection = NoReflection
  /\ revise = FALSE
  /\ passes = 0
  /\ generations = 0
  /\ all_revise = TRUE
  /\ trace_log = <<>>
  /\ PhaseIdle

\* the register calls that built the registry reg (one per name)
latest_of(reg) ==
  [n \in ToolNames |-> IF n \in DOMAIN reg THEN reg[n].id ELSE 0]

\* no run has been made before
NoOutcome ==
  [made |-> FALSE, iteration |-> 0, is_complete |-> FALSE, feedback |-> 0,
   generations |-> 0, reflections |-> 0, verdicts |-> <<>>]

\* evaluate_tool_usage has not been called
NoEvalOut ==
  [called |-> FALSE, tools_used |-> 0, tool_calls |-> 0,
   successful_calls |-> 0, success_rate |-> [num |-> 0, den |-> 1]]

EvalIdle ==
  /\ tool_meta = <<>>
  /\ eval_out = NoEvalOut

ToolIdle ==
  /\ calc_expr = NoExpr
  /\ calc_out = NoCalcOut
  /\ first_outcome = NoOutcome
  /\ EvalIdle

RegistryIdle ==
  /\ exec_call = NoExecCall
  /\ exec_out = NoExecOut
  /\ last_registered = latest_of(tools)
  /\ replaced = FALSE
  /\ ToolIdle

\* ===================================================== SpecState
\* An AgentState with max_iterations >= 1 on which add_step,
\* increment_iteration and should_continue are called in any order, and whose
\* is_complete field its owner may set (orchestrator.py: state.is_complete = True).
InitState ==
  /\ \E q \in Queries, mx \in 1..MaxN : FreshState(q, mx)
  /\ NoCalls
  /\ RunIdle("object")
  /\ max_iterations_arg = NoArg
  /\ MAX_REASONING_STEPS = 0
  /\ REFLECTION_ENABLED = TRUE
  /\ tools = EmptyRegistry
  /\ RegistryIdle

AddStepCall ==
  /\ pc = "object"
  /\ Len(reasoning_steps) < MaxSteps
  /\ \E kind \in StepKinds : reasoning_steps' = add_step(reasoning_steps, kind)
  /\ UNCHANGED <<query, current_answer, confidence_score, iteration,
                 max_iterations, is_complete, reflection_feedback>>
  /\ UNCHANGED <<call_vars, run_vars, registry_vars>>

IncrementIterationCall ==
  /\ pc = "object"
  /\ iteration < max_iterations + MaxOver
  /\ LET r == increment_iteration(iteration, max_iterations, is_complete) IN
       /\ iteration' = r.iteration
       /\ is_complete' = r.is_complete
  /\ inc_calls' = inc_calls + 1
  /\ unguarded' = (unguarded \/ ~should_continue(is_complete, iteration, max_iterations))
  /\ UNCHANGED <<query, reasoning_steps, current_answer, confidence_score,
                 max_iterations, reflection_feedback>>
  /\ UNCHANGED <<sc_called, sc_result, direct_write, run_vars, registry_vars>>

ShouldContinueCall ==
  /\ pc = "object"
  /\ sc_called' = TRUE
  /\ sc_result' = should_continue(is_complete, iteration, max_iterations)
  /\ UNCHANGED <<state_vars, inc_calls, direct_write, unguarded, run_vars,
                 registry_vars>>

SetCompleteWrite ==
  /\ pc = "object"
  /\ ~is_complete
  /\ is_complete' = TRUE
  /\ direct_write' = TRUE
  /\ UNCHANGED <<query, reasoning_steps, current_answer, confidence_score,
                 iteration, max_iterations, reflection_feedback>>
  /\ UNCHANGED <<sc_called, sc_result, inc_calls, unguarded, run_vars,
                 registry_vars>>

NextState ==
  \/ AddStepCall
  \/ IncrementIterationCall
  \/ ShouldContinueCall
  \/ SetCompleteWrite

SpecState == InitState /\ [][NextState]_vars

\* C3: on a fresh AgentState with max_iterations = N >= 1 that is changed by
\* increment_iteration() calls only, after k calls iteration = k and
\* is_complete is true exactly when k >= N.
C3_CompleteExactlyAtBound ==
  ~direct_write =>
    /\ iteration = inc_calls
    /\ is_complete <=> (inc_calls >= max_iterations)

\* C3 witness: the call that made iteration equal to a bound N >= 2 has set the flag
C3_Witness ==
  /\ ~direct_write
  /\ max_iterations >= 2
  /\ inc_calls = max_iterations
  /\ is_complete

C5_Original == iteration <= max_iterations

\* C5 amended: iteration <= max_iterations as long as increment_iteration()
\* has only been called in states where should_continue() was true.
C5_BoundedWhenGuarded == ~unguarded => iteration <= max_iterations

\* C5 witness: guarded increments have taken the counter to the bound
C5_Witness ==
  /\ ~unguarded
  /\ inc_calls >= 2
  /\ iteration = max_iterations

\* ===================================================== SpecRegistry
\* register and execute calls on one ToolRegistry, in any order.  What the
\* tool does on each attempt (return success, return failure, raise) is the
\* environment's choice.
InitRegistry ==
  /\ \E q \in {Q_WhatIsRAG} : FreshState(q, 1)
  /\ NoCalls
  /\ RunIdle("registry")
  /\ max_iterations_arg = NoArg
  /\ MAX_REASONING_STEPS = 0
  /\ REFLECTION_ENABLED = TRUE
  /\ tools \in {EmptyRegistry, DefaultRegistry}
  /\ RegistryIdle

RegisterCall ==
  /\ pc = "registry"
  /\ \E n \in ToolNames, i \in ToolIds :
       /\ tools' = register(tools, [name |-> n, id |-> i])
       /\ last_registered' = [last_registered EXCEPT ![n] = i]
       /\ replaced' = (replaced \/ last_registered[n] # 0)
  /\ UNCHANGED <<exec_call, exec_out, state_vars, call_vars, run_vars,
                 tool_vars, first_outcome, eval_vars>>

ExecuteCall ==
  /\ pc = "registry"
  /\ \E n \in ToolNames \cup {UnknownName}, beh \in Behaviours :
       /\ exec_call' = [name |-> n, registered |-> n \in DOMAIN tools,
                        latest |-> IF n \in ToolNames THEN last_registered[n] ELSE 0,
                        beh |-> beh]
       /\ exec_out' = execute(tools, n, beh)
  /\ UNCHANGED <<tools, last_registered, replaced, state_vars, call_vars,
                 run_vars, tool_vars, first_outcome, eval_vars>>

NextRegistry ==
  \/ RegisterCall
  \/ ExecuteCall

SpecRegistry == InitRegistry /\ [][NextRegistry]_vars

\* the k-th backoff sleep (k = 1, 2, ...) lasts 2^(k-1) units
Backoff(n) == [k \in 1..n |-> 2 ^ (k - 1)]

\* C9: execute on a name that is not registered returns success=false at once:
\* no tool is invoked, nothing is retried, nothing is slept.
C9_UnregisteredFailsAtOnce ==
  (exec_call # NoExecCall /\ ~exec_call.registered) =>
    /\ exec_out.result.success = FALSE
    /\ exec_out.result.error = "not_found"
    /\ exec_out.invocations = 0
    /\ exec_out.sleeps = <<>>
    /\ exec_out.tool = NoTool

\* C9 witness: an unregistered name was executed while tools were registered
C9_Witness ==
  /\ exec_call.name = UnknownName
  /\ ~exec_call.registered
  /\ DOMAIN tools # {}
  /\ exec_out.result.error = "not_found"

\* C10: execute on a registered tool calls it at most 3 times, every call
\* before the last one failed, failed attempt k (k = 0, 1) is followed by a
\* sleep of 2^k before the retry, and nothing is slept after the last call; it
\* stops at the first successful attempt and returns that attempt's result.
C10_RetryUntilFirstSuccess ==
  (exec_call # NoExecCall /\ exec_call.registered) =>
    LET n == exec_out.invocations
        beh == exec_call.beh
    IN /\ n \in 1..3
       /\ \A k \in 1..(n - 1) : beh[k] # "ok"
       /\ exec_out.sleeps = Backoff(n - 1)
       /\ (\E k \in 1..3 : beh[k] = "ok") =>
            /\ beh[n] = "ok"
            /\ exec_out.result.success
            /\ exec_out.result.attempt = n - 1
       /\ beh[1] = "ok" => exec_out.sleeps = <<>>
       /\ (beh[1] # "ok" /\ beh[2] # "ok" /\ beh[3] = "ok") =>
            (exec_out.result.success /\ exec_out.sleeps = <<1, 2>>)

\* C10 witness: a tool that raised, then returned a failure, then succeeded
C10_Witness ==
  /\ exec_call.registered
  /\ exec_call.beh = <<"raise", "fail", "ok">>
  /\ exec_out.result.success
  /\ exec_out.sleeps = <<1, 2>>
  /\ exec_out.invocations = 3

C12_LastRegistrationWins ==
  /\ DOMAIN tools = {n \in ToolNames : last_registered[n] # 0}
  /\ \A n \in DOMAIN tools : tools[n] = [name |-> n, id |-> last_registered[n]]
  /\ Cardinality(DOMAIN tools) = Cardinality({n \in ToolNames : last_registered[n] # 0})
  /\ (exec_call # NoExecCall /\ exec_call.registered) =>
       exec_out.tool = [name |-> exec_call.name, id |-> exec_call.latest]

\* C12 witness: a name was registered again with another tool, which execute
\* then used, and the registry still has one entry per name
C12_Witness ==
  /\ replaced
  /\ DOMAIN tools = ToolNames
  /\ tools["CalculatorTool"].id = 2
  /\ exec_call.name = "CalculatorTool"
  /\ exec_out.tool = [name |-> "CalculatorTool", id |-> 2]

\* ===================================================== SpecCritic
\* should_revise applied to the ReflectionResult of a reflect call, for every
\* score in tenths and every pair of list lengths up to MaxList.
MaxList == 2

CriticInputs ==
  [confidence_score : 0..10, is_satisfactory : BOOLEAN,
   strengths : 0..MaxList, weaknesses : 0..MaxList]

InitCritic ==
  /\ \E q \in {Q_WhatIsRAG} : FreshState(q, 1)
  /\ NoCalls
  /\ RunIdle("critic")
  /\ max_iterations_arg = NoArg
  /\ MAX_REASONING_STEPS = 0
  /\ REFLECTION_ENABLED = TRUE
  /\ tools = DefaultRegistry
  /\ RegistryIdle

\* reflection = critic.reflect(...); should_revise = critic.should_revise(reflection)
CriticCall ==
  /\ pc \in {"critic", "critic_done"}
  /\ \E r \in CriticInputs :
       /\ reflection' = r
       /\ revise' = should_revise(r)
  /\ pc' = "critic_done"
  /\ UNCHANGED <<state_vars, call_vars, registry_vars, max_iterations_arg,
                 MAX_REASONING_STEPS, REFLECTION_ENABLED, needs_tools,
                 collections, context_docs, tool_results, passes, generations,
                 all_revise, trace_log, phase_vars>>

NextCritic == CriticCall

SpecCritic == InitCritic /\ [][NextCritic]_vars

\* C13: should_revise(reflection) is true exactly when the confidence is
\* below MIN_CONFIDENCE_SCORE, or the answer is not satisfactory, or the
\* weaknesses strictly outnumber the strengths.
C13_ShouldReviseIsOr ==
  pc = "critic_done" =>
    /\ revise <=> (\/ reflection.confidence_score < MIN_CONFIDENCE_SCORE
                   \/ ~reflection.is_satisfactory
                   \/ reflection.weaknesses > reflection.strengths)
    /\ (reflection.confidence_score < 7 /\ reflection.is_satisfactory) => revise
    /\ (reflection.confidence_score = 10
          /\ reflection.weaknesses > reflection.strengths) => revise
    /\ (/\ reflection.confidence_score >= 7
        /\ reflection.is_satisfactory
        /\ reflection.weaknesses = reflection.strengths) => ~revise

\* C13 witness: revision asked for low confidence alone
C13_Witness ==
  /\ pc = "critic_done"
  /\ revise
  /\ reflection.confidence_score = 6
  /\ reflection.is_satisfactory
  /\ reflection.weaknesses = 1
  /\ reflection.strengths = 1

\* ===================================================== SpecRun
\* One call of AgentOrchestrator.run(query, max_iterations=arg) under a
\* configuration (MAX_REASONING_STEPS, REFLECTION_ENABLED) and a registry.
\* The initial state is the one after  state = AgentState(...)  (line 61).
\* pc is the position in run; "returned" and "raised" are its two exits.
ArgValues == {NoArg} \cup {IntArg(v) : v \in (0 - 1)..MaxN}

InitRun ==
  /\ max_iterations_arg \in ArgValues
  /\ MAX_REASONING_STEPS \in {0, MaxN}
  \* the configured bound is read only when the argument is None or 0
  /\ (max_iterations_arg.given /\ max_iterations_arg.value # 0) => MAX_REASONING_STEPS = MaxN
  /\ REFLECTION_ENABLED \in BOOLEAN
  /\ \E q \in Queries :
       FreshState(q, max_iter_of(max_iterations_arg, MAX_REASONING_STEPS))
  /\ NoCalls
  /\ RunIdle("plan")
  /\ tools = DefaultRegistry
  /\ RegistryIdle

state_frame == UNCHANGED <<query, max_iterations>>
config_frame ==
  UNCHANGED <<max_iterations_arg, MAX_REASONING_STEPS, REFLECTION_ENABLED,
              registry_vars>>

\* what the completion service answers to a first call and, were there
\* one, to a second call with the same request
ServiceBehaviours == [{1, 2} -> {"ok", "error"}]

\* mutant: a failed completion call is repeated once
completion_retry(beh) ==
  [raised |-> beh[1] = "error" /\ beh[2] = "error",
   calls |-> IF beh[1] = "error" THEN 2 ELSE 1]

\* self.client.chat.completions.create(...) in plan, _generate and reflect:
\* one call, outside any try, so its exception leaves the phase
completion(beh) == [raised |-> beh[1] = "error", calls |-> 1]

\* the completion call of a phase, for the service behaviour beh
Complete(beh) ==
  /\ completion_calls' = completion_calls + completion(beh).calls
  /\ service_failed' = (service_failed \/ beh[1] = "error")

\* a completion-service call failed (or its output could not be used):
\* the exception leaves run
RaiseWith(cause) ==
  /\ pc' = "raised"
  /\ raise_cause' = cause
  /\ UNCHANGED <<state_vars, call_vars, needs_tools, collections,
                 context_docs, tool_results, reflection, revise, passes,
                 generations, all_revise, trace_log>>
  /\ config_frame

\* the completion call of a phase raised
Raise == RaiseWith("completion")

\* lines 71-85: _plan, identify_collections, should_use_tools
Plan ==
  /\ pc = "plan"
  /\ UNCHANGED <<retrieval_outs, context_pass, prompt, selection, verdicts>>
  /\ \/ /\ \E beh \in ServiceBehaviours : completion(beh).raised /\ Complete(beh)
        /\ Raise
     \/ /\ \E beh \in ServiceBehaviours : ~completion(beh).raised /\ Complete(beh)
        /\ \E out \in PlannerOutputs : plan(out).raised
        /\ RaiseWith("KeyError")
     \/ /\ \E beh \in ServiceBehaviours : ~completion(beh).raised /\ Complete(beh)
        /\ \E out \in PlannerOutputs : ~plan(out).raised
        /\ reasoning_steps' = add_step(reasoning_steps, "plan")
        /\ collections' = identify_collections(query)
        /\ needs_tools' = should_use_tools(query)
        /\ pc' = "loop"
        /\ UNCHANGED <<current_answer, confidence_score, iteration,
                       is_complete, reflection_feedback, call_vars,
                       context_docs, tool_results, reflection, revise,
                       passes, generations, all_revise, trace_log>>
        /\ state_frame /\ config_frame
        /\ UNCHANGED raise_cause

\* line 88: while state.should_continue()
LoopHead ==
  /\ pc = "loop"
  /\ UNCHANGED <<context_pass, raise_cause, completion_calls, service_failed,
                 verdicts>>
  /\ sc_called' = TRUE
  /\ sc_result' = should_continue(is_complete, iteration, max_iterations)
  /\ IF sc_result'
       THEN /\ pc' = "retrieve"
            /\ passes' = passes + 1
            \* the locals of the phases of the pass before are gone
            /\ retrieval_outs' = <<>>
            /\ selection' = NoSelection
            /\ prompt' = NoPrompt
       ELSE /\ pc' = "finalize"
            /\ passes' = passes
            /\ UNCHANGED <<retrieval_outs, selection, prompt>>
  /\ UNCHANGED <<state_vars, inc_calls, direct_write, unguarded, needs_tools,
                 collections, context_docs, tool_results, reflection, revise,
                 generations, all_revise, trace_log>>
  /\ config_frame

\* lines 97-100: _retrieve, then tool_results = []
Retrieve ==
  /\ pc = "retrieve"
  /\ UNCHANGED <<prompt, raise_cause, selection, completion_calls,
                 service_failed, verdicts>>
  /\ \E outs \in [1..Len(collections) -> RetrievalOutcomes] :
       /\ context_docs' = retrieve(collections, outs)
       /\ retrieval_outs' = outs
  /\ context_pass' = passes
  /\ reasoning_steps' = add_step(reasoning_steps, "retrieve")
  /\ tool_results' = <<>>
  /\ pc' = IF needs_tools THEN "tools" ELSE "generate"
  /\ UNCHANGED <<current_answer, confidence_score, iteration, is_complete,
                 reflection_feedback, call_vars, needs_tools, collections,
                 reflection, revise, passes, generations, all_revise,
                 trace_log>>
  /\ state_frame /\ config_frame

\* lines 310-312: the metadata of the tool_call step,
\* {"tools": [t["tool"] for t in tool_results]}
step_tools(trs) == [i \in 1..Len(trs) |-> trs[i].tool]

\* lines 101-104: _call_tools; keep tells whether the model keeps the
\* metadata of the tool_call step
CallToolsWith(keep) ==
  /\ pc = "tools"
  /\ UNCHANGED <<retrieval_outs, context_pass, prompt, raise_cause,
                 completion_calls, service_failed, verdicts>>
  /\ \E sel \in Selections :
       LET r == call_tools(tools, sel) IN
         /\ selection' = sel
         /\ tool_results' = r.tool_results
         /\ reasoning_steps' =
              IF r.step THEN add_step(reasoning_steps, "tool_call")
              ELSE reasoning_steps
         /\ tool_meta' =
              IF keep /\ r.step
                THEN Append(tool_meta, step_tools(r.tool_results))
                ELSE tool_meta
  /\ pc' = "generate"
  /\ UNCHANGED <<current_answer, confidence_score, iteration, is_complete,
                 reflection_feedback, call_vars, needs_tools, collections,
                 context_docs, reflection, revise, passes, generations,
                 all_revise, trace_log>>
  /\ state_frame
  /\ UNCHANGED <<max_iterations_arg, MAX_REASONING_STEPS, REFLECTION_ENABLED,
                 tools, exec_call, exec_out, last_registered, replaced,
                 tool_vars, first_outcome, eval_out>>

\* _call_tools with the metadata of the step left out, as the content and
\* the metadata of every other step are
CallTools == CallToolsWith(FALSE)

\* _call_tools with the metadata of the tool_call step kept
CallToolsMeta == CallToolsWith(TRUE)

\* lines 110-114: _generate, then state.current_answer = answer
Generate ==
  /\ pc = "generate"
  /\ UNCHANGED <<retrieval_outs, context_pass, selection, verdicts>>
  /\ prompt' = generate_prompt(reflection_feedback, current_answer, context_docs,
                            tool_results)
  /\ \/ /\ \E beh \in ServiceBehaviours : completion(beh).raised /\ Complete(beh)
        /\ Raise
     \/ /\ \E beh \in ServiceBehaviours : ~completion(beh).raised /\ Complete(beh)
        /\ generations' = generations + 1
        /\ current_answer' = generations + 1
        /\ reasoning_steps' = add_step(reasoning_steps, "generate")
        /\ pc' = IF REFLECTION_ENABLED THEN "reflect" ELSE "accept"
        /\ UNCHANGED <<confidence_score, iteration, is_complete,
                       reflection_feedback, call_vars, needs_tools,
                       collections, context_docs, tool_results, reflection,
                       revise, passes, all_revise, trace_log>>
        /\ state_frame /\ config_frame
        /\ UNCHANGED raise_cause

\* mutant: the state keeps the best confidence score seen so far
reflect_confidence_best(old, r) ==
  IF r.confidence_score > old THEN r.confidence_score ELSE old

\* line 381: state.confidence_score = reflection.confidence_score
reflect_confidence(old, r) == r.confidence_score

\* line 121: _reflect
Reflect ==
  /\ pc = "reflect"
  /\ UNCHANGED <<retrieval_outs, context_pass, prompt, selection, verdicts>>
  /\ \/ /\ \E beh \in ServiceBehaviours : completion(beh).raised /\ Complete(beh)
        /\ Raise
     \/ /\ \E beh \in ServiceBehaviours : ~completion(beh).raised /\ Complete(beh)
        /\ \E out \in CriticOutputs :
             /\ reflection' = reflect(out)
             /\ confidence_score' =
                  reflect_confidence(confidence_score, reflect(out))
        /\ reasoning_steps' = add_step(reasoning_steps, "reflect")
        /\ pc' = "decide"
        /\ UNCHANGED <<current_answer, iteration, is_complete,
                       reflection_feedback, call_vars, needs_tools,
                       collections, context_docs, tool_results, revise,
                       passes, generations, all_revise, trace_log>>
        /\ state_frame /\ config_frame
        /\ UNCHANGED raise_cause

\* mutant: a further pass is started whenever the budget allows
revise_branch_budget_only(verdict, ic, it, mx) == should_continue(ic, it, mx)

\* line 126: should_revise and state.should_continue()
revise_branch(verdict, ic, it, mx) ==
  verdict /\ should_continue(ic, it, mx)

\* mutant: the counter is incremented before the feedback is appended
revise_steps_increment_first == <<"increment", "feedback">>

\* lines 131-135, the order of the REVISE branch: append the feedback, then
\* increment_iteration(), then continue
revise_steps == <<"feedback", "increment">>

\* the position after a step of the REVISE branch
after_revise_step(p) ==
  IF p = revise_steps[1] THEN revise_steps[2] ELSE "loop"

\* lines 124-126: should_revise = critic.should_revise(reflection); the branch
Decide ==
  /\ pc = "decide"
  /\ UNCHANGED <<retrieval_outs, context_pass, prompt, raise_cause,
                 selection, completion_calls, service_failed>>
  /\ revise' = should_revise(reflection)
  /\ verdicts' = Append(verdicts, revise')
  /\ all_revise' = (all_revise /\ revise')
  /\ pc' = IF revise_branch(revise', is_complete, iteration, max_iterations)
             THEN revise_steps[1] ELSE "accept"
  /\ UNCHANGED <<state_vars, call_vars, needs_tools, collections,
                 context_docs, tool_results, reflection, passes, generations,
                 trace_log>>
  /\ config_frame

\* lines 131-132: state.reflection_feedback.append(feedback)
Feedback ==
  /\ pc = "feedback"
  /\ UNCHANGED <<retrieval_outs, context_pass, prompt, raise_cause,
                 selection, completion_calls, service_failed, verdicts>>
  /\ reflection_feedback' =
       Append(reflection_feedback, format_reflection_feedback(reflection, passes))
  /\ pc' = after_revise_step("feedback")
  /\ UNCHANGED <<reasoning_steps, current_answer, confidence_score, iteration,
                 is_complete, call_vars, needs_tools, collections,
                 context_docs, tool_results, reflection, revise, passes,
                 generations, all_revise, trace_log>>
  /\ state_frame /\ config_frame

\* lines 134-135: state.increment_iteration(); continue
Increment ==
  /\ pc = "increment"
  /\ UNCHANGED <<retrieval_outs, context_pass, prompt, raise_cause,
                 selection, completion_calls, service_failed, verdicts>>
  /\ LET r == increment_iteration(iteration, max_iterations, is_complete) IN
       /\ iteration' = r.iteration
       /\ is_complete' = r.is_complete
  /\ inc_calls' = inc_calls + 1
  /\ unguarded' = (unguarded \/ ~should_continue(is_complete, iteration, max_iterations))
  /\ pc' = after_revise_step("increment")
  /\ UNCHANGED <<reasoning_steps, current_answer, confidence_score,
                 reflection_feedback, sc_called, sc_result, direct_write,
                 needs_tools, collections, context_docs, tool_results,
                 reflection, revise, passes, generations, all_revise,
                 trace_log>>
  /\ state_frame /\ config_frame

\* lines 139-140 and 143-144: state.is_complete = True; break
Accept ==
  /\ pc = "accept"
  /\ UNCHANGED <<retrieval_outs, context_pass, prompt, raise_cause,
                 selection, completion_calls, service_failed, verdicts>>
  /\ is_complete' = TRUE
  /\ direct_write' = TRUE
  /\ pc' = "finalize"
  /\ UNCHANGED <<reasoning_steps, current_answer, confidence_score, iteration,
                 reflection_feedback, sc_called, sc_result, inc_calls,
                 unguarded, needs_tools, collections, context_docs,
                 tool_results, reflection, revise, passes, generations,
                 all_revise, trace_log>>
  /\ state_frame /\ config_frame

\* lines 155-157: self.logger.log_state(state); return state
Finalize ==
  /\ pc = "finalize"
  /\ UNCHANGED <<retrieval_outs, context_pass, prompt, raise_cause,
                 selection, completion_calls, service_failed, verdicts>>
  /\ trace_log' =
       Append(trace_log,
              log_record(query, iteration, confidence_score, is_complete,
                         reasoning_steps))
  /\ pc' = "returned"
  /\ UNCHANGED <<state_vars, call_vars, needs_tools, collections,
                 context_docs, tool_results, reflection, revise, passes,
                 generations, all_revise>>
  /\ config_frame

NextRun ==
  \/ Plan
  \/ LoopHead
  \/ Retrieve
  \/ CallTools
  \/ Generate
  \/ Reflect
  \/ Decide
  \/ Feedback
  \/ Increment
  \/ Accept
  \/ Finalize

SpecRun == InitRun /\ [][NextRun]_vars

\* the run's single thread always takes its next step
FairSpecRun == SpecRun /\ WF_vars(NextRun)

\* the kinds of the reasoning steps, in order
kinds(steps) == [i \in 1..Len(steps) |-> steps[i].step_type]

Exited == pc \in {"returned", "raised"}

C1_Safe ==
  (REFLECTION_ENABLED /\ max_iterations >= 1 /\ all_revise) =>
    /\ passes <= max_iterations
    /\ pc = "returned" =>
         /\ is_complete
         /\ current_answer # None
         /\ passes <= max_iterations

\* C1: with reflection enabled and max_iterations = N >= 1, a run in which
\* should_revise is true after every reflection never starts more than N loop
\* passes, reaches an exit, and when it returns is_complete is true and
\* current_answer is not None.
C1_AlwaysReviseTerminates == []C1_Safe /\ <>Exited

\* C1 witness: a run returned after N = MaxN passes, every one of them
\* followed by a revision request
C1_Witness ==
  /\ pc = "returned"
  /\ REFLECTION_ENABLED
  /\ all_revise
  /\ max_iterations = MaxN
  /\ passes = MaxN
  /\ Len(reflection_feedback) = MaxN

\* C2: the REVISE branch is taken, and a further loop pass started, only
\* when should_revise is true and should_continue() is true; a run whose last
\* reflection asked for revision (the budget is then exhausted) returns with
\* current_answer the answer of the last generation phase.
C2_ReviseNeedsVerdictAndBudget ==
  [][/\ (pc = "decide" /\ pc' \in {"feedback", "increment"}) =>
          (revise' /\ should_continue(is_complete, iteration, max_iterations))
     /\ (passes' = passes + 1 /\ passes >= 1) =>
          (revise /\ sc_result' /\ iteration' < max_iterations')
     /\ (pc' = "returned" /\ REFLECTION_ENABLED' /\ revise') =>
          /\ iteration' >= max_iterations'
          /\ is_complete'
          /\ generations' >= 1
          /\ current_answer' = generations']_vars

\* C2 witness: the critic asked for revision of the last answer, the budget
\* was exhausted, and run returned with that answer
C2_Witness ==
  /\ pc = "returned"
  /\ REFLECTION_ENABLED
  /\ revise
  /\ passes = 2
  /\ iteration = max_iterations
  /\ current_answer = 2

\* C6: once is_complete is true, no step of run changes a field of the
\* AgentState.
C6_TerminalStateFrozen == [][is_complete => UNCHANGED state_vars]_vars

\* C6 witness: is_complete was set inside increment_iteration and run has
\* since gone through the loop head and finalization
C6_Witness ==
  /\ pc = "returned"
  /\ is_complete
  /\ ~direct_write
  /\ inc_calls >= 2

\* C7 as stated: every run that returns has a non-null current_answer and
\* is_complete = true, whatever the max_iterations argument and the
\* configured MAX_REASONING_STEPS.
C7_Original ==
  pc = "returned" => (current_answer # None /\ is_complete)

InitRetrieve ==
  /\ \E q \in Queries :
       /\ FreshState(q, MaxN)
       /\ needs_tools = should_use_tools(q)
  /\ NoCalls
  /\ pc = "retrieve"
  /\ collections \in CollectionLists
  /\ context_docs = <<>>
  /\ tool_results = <<>>
  /\ reflection = NoReflection
  /\ revise = FALSE
  /\ passes = 0
  /\ generations = 0
  /\ all_revise = TRUE
  /\ trace_log = <<>>
  /\ PhaseIdle
  /\ max_iterations_arg = NoArg
  /\ MAX_REASONING_STEPS = MaxN
  /\ REFLECTION_ENABLED = TRUE
  /\ tools = DefaultRegistry
  /\ RegistryIdle

NextRetrieve == Retrieve

SpecRetrieve == InitRetrieve /\ [][NextRetrieve]_vars

\* the retrieval phase has returned
Retrieved == pc \in {"tools", "generate"} /\ generations = 0 /\ retrieval_outs # <<>>

RECURSIVE healthy_count(_, _)
\* the number of chunks returned by the first k collections that did not raise
healthy_count(outs, k) ==
  IF k = 0 THEN 0
  ELSE healthy_count(outs, k - 1) + (IF outs[k].raised THEN 0 ELSE outs[k].n)

\* C14: when retrieval raises for some of the target collections, the
\* aggregated context holds only results of collections that did not raise,
\* the collections after a raising one are still queried (their best chunk is
\* in the context while there is room below TOP_K), no exception leaves the
\* phase (it appends its step and hands over to tool dispatch or generation).
C14_PartialFailureSkipsCollection ==
  /\ pc # "raised"
  /\ Retrieved =>
       /\ Len(retrieval_outs) = Len(collections)
       /\ \A i \in 1..Len(context_docs) :
            \E k \in 1..Len(collections) :
              /\ collections[k] = context_docs[i].collection
              /\ ~retrieval_outs[k].raised
       /\ \A k \in 1..Len(collections) :
            (~retrieval_outs[k].raised /\ healthy_count(retrieval_outs, k - 1) < TOP_K) =>
              \E i \in 1..Len(context_docs) :
                context_docs[i] = [collection |-> collections[k], rank |-> 1]
       /\ kinds(reasoning_steps) = <<"retrieve">>

\* C14 witness: of 3 target collections the second raised and the context
\* holds chunks of the first and of the third
C14_Witness ==
  /\ Retrieved
  /\ Len(collections) = 3
  /\ ~retrieval_outs[1].raised
  /\ retrieval_outs[2].raised
  /\ ~retrieval_outs[3].raised
  /\ \E i, j \in 1..Len(context_docs) :
       /\ context_docs[i].collection = collections[1]
       /\ context_docs[j].collection = collections[3]

\* C15: the context returned by the retrieval phase is the first TOP_K
\* elements of the concatenation, in collection-iteration order, of the
\* per-collection result sequences, each in its returned order; it never has
\* more than TOP_K elements.
C15_FirstTopKOfConcatenation ==
  Retrieved =>
    /\ Len(context_docs) <= TOP_K
    /\ Len(context_docs) =
         Min(TOP_K, healthy_count(retrieval_outs, Len(retrieval_outs)))
    /\ \A i \in 1..Len(context_docs) :
         \E k \in 1..Len(collections) :
           /\ ~retrieval_outs[k].raised
           /\ healthy_count(retrieval_outs, k - 1) < i
           /\ i <= healthy_count(retrieval_outs, k)
           /\ context_docs[i] =
                [collection |-> collections[k],
                 rank |-> i - healthy_count(retrieval_outs, k - 1)]

\* C15 witness: three collections returned three chunks each and the context
\* ends with the second chunk of the second collection
C15_Witness ==
  /\ Retrieved
  /\ Len(collections) = 3
  /\ \A k \in 1..3 : ~retrieval_outs[k].raised /\ retrieval_outs[k].n = PER_COLLECTION_TOP_K
  /\ Len(context_docs) = TOP_K
  /\ context_docs[TOP_K] = [collection |-> collections[2], rank |-> 2]


\* the step kinds of one loop pass
pass_kinds ==
  <<"retrieve">>
    \o (IF should_use_tools(query) THEN <<"tool_call">> ELSE <<>>)
    \o <<"generate">>
    \o (IF REFLECTION_ENABLED THEN <<"reflect">> ELSE <<>>)

RECURSIVE repeated(_, _)
repeated(block, n) == IF n = 0 THEN <<>> ELSE repeated(block, n - 1) \o block

\* C16: when run has returned, the step kinds are one plan step, then for
\* each loop pass in order retrieve, tool_call exactly when
\* should_use_tools(query), generate, reflect exactly when reflection is
\* enabled; every phase left exactly one step and no other kind appears.
C16_StepKindsFollowPhases ==
  pc = "returned" =>
    /\ kinds(reasoning_steps) = <<"plan">> \o repeated(pass_kinds, passes)
    /\ generations = passes

\* C16 witness: a returned run of two passes with tool dispatch and reflection
C16_Witness ==
  /\ pc = "returned"
  /\ passes = 2
  /\ should_use_tools(query)
  /\ REFLECTION_ENABLED
  /\ kinds(reasoning_steps) =
       <<"plan", "retrieve", "tool_call", "generate", "reflect",
         "retrieve", "tool_call", "generate", "reflect">>


\* C17: in every reachable state the i-th reasoning step (1-based) has
\* step_number = i, and every step of the program leaves reasoning_steps as
\* it is or appends exactly one step to it, changing no earlier step.
C17_StepsNumberedAppendOnly ==
  /\ [](\A i \in 1..Len(reasoning_steps) : reasoning_steps[i].step_number = i)
  /\ [][\/ reasoning_steps' = reasoning_steps
        \/ /\ Len(reasoning_steps') = Len(reasoning_steps) + 1
           /\ SubSeq(reasoning_steps', 1, Len(reasoning_steps)) = reasoning_steps
           /\ reasoning_steps'[Len(reasoning_steps')].step_number =
                Len(reasoning_steps) + 1]_vars

\* C17 witness: a returned run whose trace has at least five steps, the
\* fifth numbered 5
C17_Witness ==
  /\ pc = "returned"
  /\ Len(reasoning_steps) >= 5
  /\ reasoning_steps[5].step_number = 5
  /\ reasoning_steps[1].step_type = "plan"


\* the generation phase of the current pass has built its prompt and the
\* feedback list is still the one it read
Generated == pc \in {"reflect", "decide", "accept", "feedback"}

\* C18: generation uses the initial-answer template exactly when
\* reflection_feedback is empty, which is the first loop pass, and the
\* revision template in every later pass; a revision prompt holds the answer
\* of the pass before, the last feedback entry (the one appended in the pass
\* before) and the context retrieved in the current pass.
C18_PromptTemplateAndContents ==
  Generated =>
    /\ prompt.template \in {"initial", "revision"}
    /\ (prompt.template = "initial") <=> (reflection_feedback = <<>>)
    /\ (prompt.template = "initial") <=> (passes = 1)
    /\ prompt.context = context_docs
    /\ context_pass = passes
    /\ prompt.template = "revision" =>
         /\ current_answer = passes
         /\ prompt.previous_answer = passes - 1
         /\ Len(reflection_feedback) = passes - 1
         /\ prompt.feedback = reflection_feedback[Len(reflection_feedback)]
         /\ prompt.feedback.id = passes - 1

\* C18 witness: the third pass built a revision prompt from the second
\* answer and the second feedback entry
C18_Witness ==
  /\ pc = "decide"
  /\ passes = 3
  /\ prompt.template = "revision"
  /\ prompt.previous_answer = 2
  /\ prompt.feedback.id = 2
  /\ Len(reflection_feedback) = 2
  /\ Len(prompt.context) > 0


\* C19 (as claimed): a planner or critic output that lacks fields never makes
\* run raise. The critic's parse substitutes defaults, the planner's parse
\* raises KeyError, which leaves run.
C19_Original == raise_cause # "KeyError"


\* the number of tool calls of the selection that are dispatched: all of
\* them, or those before the first one whose arguments do not parse
dispatched(sel) ==
  IF sel.raised THEN 0
  ELSE IF \A i \in 1..Len(sel.calls) : sel.calls[i].args_ok THEN Len(sel.calls)
  ELSE (CHOOSE i \in 1..Len(sel.calls) :
          /\ ~sel.calls[i].args_ok
          /\ \A j \in 1..(i - 1) : sel.calls[j].args_ok) - 1

\* the call succeeds: its tool is registered and one of its attempts is "ok"
call_succeeds(call) ==
  /\ call.name \in ToolNames
  /\ \E k \in 1..max_attempts : call.beh[k] = "ok"

C20_State ==
  Generated /\ should_use_tools(query) =>
    /\ Len(tool_results) = dispatched(selection)
    /\ Len(prompt.tool_context) = Len(tool_results)
    /\ \A i \in 1..Len(tool_results) :
         /\ tool_results[i].tool = selection.calls[i].name
         /\ tool_results[i].success <=> call_succeeds(selection.calls[i])
         /\ ~tool_results[i].success =>
              /\ prompt.tool_context[i].tool = selection.calls[i].name
              /\ prompt.tool_context[i].entry = "Error"
              /\ prompt.tool_context[i].detail = tool_results[i].error
              /\ tool_results[i].error \in {"not_found", "tool", "exhausted"}

\* C20: no failure inside tool dispatch aborts run: whatever the
\* tool-selection completion does (it raises, names an unknown tool, gives
\* arguments that do not parse, the tool raises or fails on every attempt),
\* the phase records its step and hands over to the generation phase of the
\* same pass, run raises from no other place than a completion call of plan,
\* generate or reflect, and every failed invocation that returned a
\* ToolResult is an error entry for its tool in the generation context.
C20_ToolFailuresNeverAbort ==
  /\ []C20_State
  /\ [][/\ pc = "tools" =>
             /\ pc' = "generate"
             /\ passes' = passes
             /\ reasoning_steps' = add_step(reasoning_steps, "tool_call")
        /\ pc' = "raised" => pc \in {"plan", "generate", "reflect"}]_vars

\* C20 witness: the selection named an unknown tool and a tool that failed,
\* raised and failed again on its 3 attempts; both are error entries of the
\* prompt of the generation phase that followed
C20_Witness ==
  /\ Generated
  /\ ~selection.raised
  /\ Len(selection.calls) = 2
  /\ selection.calls[1].name = UnknownName
  /\ selection.calls[2].beh = <<"fail", "raise", "fail">>
  /\ Len(prompt.tool_context) = 2
  /\ prompt.tool_context[1] =
       [tool |-> UnknownName, entry |-> "Error", detail |-> "not_found"]
  /\ prompt.tool_context[2] =
       [tool |-> "CalculatorTool", entry |-> "Error", detail |-> "tool"]


\* the reasoning steps left by the phases that call the completion service
\* outside a try block
completion_steps ==
  {i \in 1..Len(reasoning_steps) :
     reasoning_steps[i].step_type \in {"plan", "generate", "reflect"}}

\* C21: a completion-service failure in the plan, generate or reflect phase
\* is fatal: each execution of such a phase calls the service exactly once,
\* a failed call makes run raise at once, nothing happens after run has
\* raised, and a run that raised has written no log record.
C21_CompletionFailureIsFatal ==
  /\ [](service_failed => (pc = "raised" /\ raise_cause = "completion"))
  /\ [](pc = "raised" => trace_log = <<>>)
  /\ [](completion_calls =
          Cardinality(completion_steps) + (IF pc = "raised" THEN 1 ELSE 0))
  /\ [][pc # "raised"]_vars

\* C21 witness: the generation phase of the second pass failed; the first
\* pass's plan, generate and reflect calls and the failed one were made
C21_Witness ==
  /\ pc = "raised"
  /\ service_failed
  /\ passes = 2
  /\ generations = 1
  /\ completion_calls = 4
  /\ trace_log = <<>>


\* ===================================================== SpecCalculator
\* One CalculatorTool.execute call on any of the expressions.
InitCalculator ==
  /\ \E q \in {Q_Calc} : FreshState(q, 1)
  /\ NoCalls
  /\ RunIdle("calculator")
  /\ max_iterations_arg = NoArg
  /\ MAX_REASONING_STEPS = 0
  /\ REFLECTION_ENABLED = TRUE
  /\ tools = DefaultRegistry
  /\ exec_call = NoExecCall
  /\ exec_out = NoExecOut
  /\ last_registered = latest_of(tools)
  /\ replaced = FALSE
  /\ calc_expr \in Exprs
  /\ calc_out = NoCalcOut
  /\ first_outcome = NoOutcome
  /\ EvalIdle

CalculatorExecute ==
  /\ pc = "calculator"
  /\ calc_out' = CalculatorTool_execute(calc_expr)
  /\ pc' = "calculated"
  /\ UNCHANGED <<state_vars, call_vars, max_iterations_arg,
                 MAX_REASONING_STEPS, REFLECTION_ENABLED, needs_tools,
                 collections, context_docs, tool_results, reflection, revise,
                 passes, generations, all_revise, trace_log, phase_vars,
                 tools, exec_call, exec_out, last_registered, replaced,
                 calc_expr, first_outcome, eval_vars>>

NextCalculator == CalculatorExecute

SpecCalculator == InitCalculator /\ [][NextCalculator]_vars

RECURSIVE names_of(_)
\* the names an expression refers to
names_of(x) ==
  CASE x.kind = "name" -> {x.id}
    [] x.kind \in {"add", "or"} -> names_of(x.l) \cup names_of(x.r)
    [] x.kind = "attr" -> names_of(x.obj)
    [] x.kind = "call" -> {x.fn} \cup names_of(x.arg)
    [] OTHER -> {}

RECURSIVE arithmetic(_)
\* the expression is built from numbers, names, + and calls only
arithmetic(x) ==
  CASE x.kind \in {"num", "name"} -> TRUE
    [] x.kind = "add" -> arithmetic(x.l) /\ arithmetic(x.r)
    [] x.kind = "call" -> arithmetic(x.arg)
    [] OTHER -> FALSE

\* C22 (as claimed): execute returns success=false for every expression that
\* refers to a name outside the whitelist or uses attribute access, an import
\* or another non-arithmetic construct. eval with empty builtins still
\* evaluates attribute access and boolean operators, and never looks up a
\* name in an operand that is not evaluated.
C22_Original ==
  pc = "calculated" =>
    ((~(names_of(calc_expr) \subseteq allowed_names) \/ ~arithmetic(calc_expr))
       => ~calc_out.success)


\* ===================================================== SpecPlanner
\* The planner heuristics applied to queries of one or two words.
Words ==
  {<<"C","o","u","r","s","e">>,
   <<"V","I","D","E","O">>,
   <<"L","e","c","t","u","r","e">>,
   <<"h","o","m","e","w","o","r","k">>,
   <<"r","e","c","o","r","d","i","n","g">>,
   <<"w","h","a","t">>,
   <<"l","i","s","t">>,
   <<"R","A","G">>}

PlannerQueries == Words \cup {a \o <<" ">> \o b : a \in Words, b \in Words}

InitPlanner ==
  /\ \E q \in PlannerQueries : FreshState(q, 1)
  /\ NoCalls
  /\ RunIdle("planner")
  /\ max_iterations_arg = NoArg
  /\ MAX_REASONING_STEPS = 0
  /\ REFLECTION_ENABLED = TRUE
  /\ tools = DefaultRegistry
  /\ RegistryIdle

\* collections = planner.identify_collections(query);
\* needs_tools = planner.should_use_tools(query)
PlannerCall ==
  /\ pc \in {"planner", "planned"}
  /\ collections' = identify_collections(query)
  /\ needs_tools' = should_use_tools(query)
  /\ pc' = "planned"
  /\ UNCHANGED <<state_vars, call_vars, registry_vars, max_iterations_arg,
                 MAX_REASONING_STEPS, REFLECTION_ENABLED, context_docs,
                 tool_results, reflection, revise, passes, generations,
                 all_revise, trace_log, phase_vars>>

NextPlanner == PlannerCall

SpecPlanner == InitPlanner /\ [][NextPlanner]_vars

matches_course == any_keyword(lower(query), course_keywords)
matches_transcripts == any_keyword(lower(query), transcript_keywords)

\* C23: identify_collections(query) is never empty; it is the fallback
\* <<ai_academy_course>> when no keyword matches, and otherwise the matched
\* partitions, each once, ai_academy_course before transcripts. A second
\* call on the same query leaves the same list (no step changes it).
C23_CollectionsMatchedInOrder ==
  /\ [](pc = "planned" =>
         /\ Len(collections) >= 1
         /\ \A i, j \in 1..Len(collections) : i # j => collections[i] # collections[j]
         /\ (~matches_course /\ ~matches_transcripts) =>
              collections = <<"ai_academy_course">>
         /\ (matches_course /\ ~matches_transcripts) =>
              collections = <<"ai_academy_course">>
         /\ (~matches_course /\ matches_transcripts) =>
              collections = <<"transcripts">>
         /\ (matches_course /\ matches_transcripts) =>
              collections = <<"ai_academy_course", "transcripts">>)
  /\ [][pc = "planned" => collections' = collections]_vars

\* C23 witness: "VIDEO homework" matches both tables, through different
\* words and in the other order
C23_Witness ==
  /\ pc = "planned"
  /\ query = <<"V","I","D","E","O">> \o <<" ">> \o <<"h","o","m","e","w","o","r","k">>
  /\ collections = <<"ai_academy_course", "transcripts">>


\* C24: a run that has returned has written exactly one log record, whose
\* iteration, confidence, is_complete and step count are those of the
\* returned state; the record is written by the step that ends run, after
\* the loop, and a run that has not returned (it is under way, or it raised)
\* has written none.
C24_OneLogRecordPerReturn ==
  /\ [](pc = "returned" =>
         /\ Len(trace_log) = 1
         /\ trace_log[1].query = query
         /\ trace_log[1].iteration = iteration
         /\ trace_log[1].confidence = confidence_score
         /\ trace_log[1].is_complete = is_complete
         /\ trace_log[1].steps = Len(reasoning_steps))
  /\ [](pc # "returned" => trace_log = <<>>)
  /\ [][trace_log' # trace_log => (pc = "finalize" /\ pc' = "returned")]_vars

\* C24 witness: a run returned after two revisions and its record says so
C24_Witness ==
  /\ pc = "returned"
  /\ iteration = 2
  /\ Len(trace_log) = 1
  /\ trace_log[1].iteration = 2
  /\ trace_log[1].is_complete
  /\ trace_log[1].steps = Len(reasoning_steps)
  /\ Len(reasoning_steps) >= 7


\* ===================================================== SpecLoop
\* One call of ReasoningAgent.run (agent/reasoning_loop.py), the other
\* implementation of the loop: no tools, no log record, and the REVISE branch
\* increments the counter before it appends the feedback.
\* When an AgentOrchestrator.run was made before (first_outcome.made), the
\* critic gives this run the verdicts it gave that one.

\* the variables ReasoningAgent.run never touches
loop_frame ==
  UNCHANGED <<query, max_iterations, max_iterations_arg, MAX_REASONING_STEPS,
              REFLECTION_ENABLED, needs_tools, tool_results, all_revise,
              trace_log, context_pass, selection, registry_vars>>

InitLoop ==
  /\ max_iterations_arg = NoArg
  /\ MAX_REASONING_STEPS \in 0..MaxN
  /\ REFLECTION_ENABLED \in BOOLEAN
  /\ \E q \in Queries : FreshState(q, MAX_REASONING_STEPS)
  /\ NoCalls
  /\ RunIdle("l_plan")
  /\ tools = DefaultRegistry
  /\ RegistryIdle

\* an exception leaves ReasoningAgent.run
LoopRaiseWith(cause) ==
  /\ pc' = "raised"
  /\ raise_cause' = cause
  /\ UNCHANGED <<reasoning_steps, current_answer, confidence_score, iteration,
                 is_complete, reflection_feedback, call_vars, collections,
                 context_docs, reflection, revise, passes, generations,
                 retrieval_outs, prompt, verdicts>>
  /\ loop_frame

\* lines 48-57: planner.plan, add_step("plan"), identify_collections
LoopPlan ==
  /\ pc = "l_plan"
  /\ \/ /\ \E beh \in ServiceBehaviours : completion(beh).raised /\ Complete(beh)
        /\ LoopRaiseWith("completion")
     \/ /\ \E beh \in ServiceBehaviours : ~completion(beh).raised /\ Complete(beh)
        /\ \E out \in PlannerOutputs : plan(out).raised
        /\ LoopRaiseWith("KeyError")
     \/ /\ \E beh \in ServiceBehaviours : ~completion(beh).raised /\ Complete(beh)
        /\ \E out \in PlannerOutputs : ~plan(out).raised
        /\ reasoning_steps' = add_step(reasoning_steps, "plan")
        /\ collections' = identify_collections(query)
        /\ pc' = "l_loop"
        /\ UNCHANGED <<current_answer, confidence_score, iteration,
                       is_complete, reflection_feedback, call_vars,
                       context_docs, reflection, revise, passes, generations,
                       retrieval_outs, prompt, verdicts, raise_cause>>
        /\ loop_frame

\* line 60: while state.should_continue(); line 116: return state
LoopLoopHead ==
  /\ pc = "l_loop"
  /\ sc_called' = TRUE
  /\ sc_result' = should_continue(is_complete, iteration, max_iterations)
  /\ IF sc_result'
       THEN /\ pc' = "l_execute"
            /\ passes' = passes + 1
            /\ retrieval_outs' = <<>>
            /\ prompt' = NoPrompt
       ELSE /\ pc' = "l_returned"
            /\ passes' = passes
            /\ UNCHANGED <<retrieval_outs, prompt>>
  /\ UNCHANGED <<reasoning_steps, current_answer, confidence_score, iteration,
                 is_complete, reflection_feedback, inc_calls, direct_write,
                 unguarded, collections, context_docs, reflection, revise,
                 generations, completion_calls, service_failed, verdicts,
                 raise_cause>>
  /\ loop_frame

\* lines 65-71: _retrieve_context, _generate_answer, current_answer = answer,
\* add_step("execute")
LoopExecute ==
  /\ pc = "l_execute"
  /\ \E outs \in [1..Len(collections) -> RetrievalOutcomes] :
       /\ context_docs' = retrieve(collections, outs)
       /\ retrieval_outs' = outs
  /\ prompt' = generate_prompt(reflection_feedback, current_answer,
                               context_docs', <<>>)
  /\ \/ /\ \E beh \in ServiceBehaviours : completion(beh).raised /\ Complete(beh)
        /\ pc' = "raised"
        /\ raise_cause' = "completion"
        /\ UNCHANGED <<reasoning_steps, current_answer, generations>>
     \/ /\ \E beh \in ServiceBehaviours : ~completion(beh).raised /\ Complete(beh)
        /\ generations' = generations + 1
        /\ current_answer' = generations + 1
        /\ reasoning_steps' = add_step(reasoning_steps, "execute")
        /\ pc' = IF REFLECTION_ENABLED THEN "l_reflect" ELSE "l_accept"
        /\ UNCHANGED raise_cause
  /\ UNCHANGED <<confidence_score, iteration, is_complete, reflection_feedback,
                 call_vars, collections, reflection, revise, passes, verdicts>>
  /\ loop_frame

\* lines 76-86: critic.reflect, confidence_score, add_step("reflect")
LoopReflect ==
  /\ pc = "l_reflect"
  /\ \/ /\ \E beh \in ServiceBehaviours : completion(beh).raised /\ Complete(beh)
        /\ LoopRaiseWith("completion")
     \/ /\ \E beh \in ServiceBehaviours : ~completion(beh).raised /\ Complete(beh)
        /\ \E out \in CriticOutputs :
             /\ (first_outcome.made /\ passes <= Len(first_outcome.verdicts)) =>
                  should_revise(reflect(out)) = first_outcome.verdicts[passes]
             /\ reflection' = reflect(out)
             /\ confidence_score' =
                  reflect_confidence(confidence_score, reflect(out))
        /\ reasoning_steps' = add_step(reasoning_steps, "reflect")
        /\ pc' = "l_decide"
        /\ UNCHANGED <<current_answer, iteration, is_complete,
                       reflection_feedback, call_vars, collections,
                       context_docs, revise, passes, generations,
                       retrieval_outs, prompt, verdicts, raise_cause>>
        /\ loop_frame

\* mutant: a further pass is started when either the critic or the budget
\* asks for it
loop_revise_branch_or(verdict, ic, it, mx) ==
  verdict \/ should_continue(ic, it, mx)

\* line 92: self.critic.should_revise(reflection) and state.should_continue()
loop_revise_branch(verdict, ic, it, mx) ==
  verdict /\ should_continue(ic, it, mx)

\* lines 94-103, the order of the REVISE branch: increment_iteration(), then
\* append the feedback, then continue
loop_revise_steps == <<"l_increment", "l_feedback">>

\* lines 97-101: the feedback text is a function of the critique
loop_feedback(r, id) == [id |-> id, weaknesses |-> r.weaknesses]

\* line 92: the branch
LoopDecide ==
  /\ pc = "l_decide"
  /\ revise' = should_revise(reflection)
  /\ verdicts' = Append(verdicts, revise')
  /\ pc' = IF loop_revise_branch(revise', is_complete, iteration, max_iterations)
             THEN loop_revise_steps[1] ELSE "l_accept"
  /\ UNCHANGED <<reasoning_steps, current_answer, confidence_score, iteration,
                 is_complete, reflection_feedback, call_vars, collections,
                 context_docs, reflection, passes, generations, retrieval_outs,
                 prompt, completion_calls, service_failed, raise_cause>>
  /\ loop_frame

\* line 94: state.increment_iteration()
LoopIncrement ==
  /\ pc = "l_increment"
  /\ LET r == increment_iteration(iteration, max_iterations, is_complete) IN
       /\ iteration' = r.iteration
       /\ is_complete' = r.is_complete
  /\ inc_calls' = inc_calls + 1
  /\ unguarded' = (unguarded \/ ~should_continue(is_complete, iteration, max_iterations))
  /\ pc' = loop_revise_steps[2]
  /\ UNCHANGED <<reasoning_steps, current_answer, confidence_score,
                 reflection_feedback, sc_called, sc_result, direct_write,
                 collections, context_docs, reflection, revise, passes,
                 generations, retrieval_outs, prompt, completion_calls,
                 service_failed, verdicts, raise_cause>>
  /\ loop_frame

\* lines 97-106: state.reflection_feedback.append(feedback); continue
LoopFeedback ==
  /\ pc = "l_feedback"
  /\ reflection_feedback' =
       Append(reflection_feedback, loop_feedback(reflection, passes))
  /\ pc' = "l_loop"
  /\ UNCHANGED <<reasoning_steps, current_answer, confidence_score, iteration,
                 is_complete, call_vars, collections, context_docs, reflection,
                 revise, passes, generations, retrieval_outs, prompt,
                 completion_calls, service_failed, verdicts, raise_cause>>
  /\ loop_frame

\* lines 109-110 and 113-114: state.is_complete = True; break; return state
LoopAccept ==
  /\ pc = "l_accept"
  /\ is_complete' = TRUE
  /\ direct_write' = TRUE
  /\ pc' = "l_returned"
  /\ UNCHANGED <<reasoning_steps, current_answer, confidence_score, iteration,
                 reflection_feedback, sc_called, sc_result, inc_calls,
                 unguarded, collections, context_docs, reflection, revise,
                 passes, generations, retrieval_outs, prompt, completion_calls,
                 service_failed, verdicts, raise_cause>>
  /\ loop_frame

NextLoop ==
  \/ LoopPlan
  \/ LoopLoopHead
  \/ LoopExecute
  \/ LoopReflect
  \/ LoopDecide
  \/ LoopIncrement
  \/ LoopFeedback
  \/ LoopAccept

SpecLoop == InitLoop /\ [][NextLoop]_vars

\* C25 (as claimed): in ReasoningAgent.run, once is_complete is true no
\* step changes a field of the AgentState. The REVISE branch appends the
\* feedback after increment_iteration, which sets is_complete when the
\* counter reaches the bound.
C25_Original ==
  [][is_complete =>
       /\ Len(reflection_feedback') = Len(reflection_feedback)
       /\ UNCHANGED state_vars]_vars


\* C26 (as claimed): at every loop head of AgentOrchestrator.run and at
\* return, len(reflection_feedback) = iteration and
\* 0 <= iteration <= max_iterations; increment_iteration is only called
\* where should_continue() is true, one feedback entry per increment.
C26_Original ==
  /\ ~unguarded
  /\ pc \in {"loop", "returned"} =>
       /\ Len(reflection_feedback) = iteration
       /\ inc_calls = iteration
       /\ 0 <= iteration
       /\ iteration <= max_iterations


\* the run ended through the ACCEPT branch (is_complete written at line 139
\* or 143) and not through the loop condition
accepted == direct_write

\* C27: in every run that returns after at least one loop pass the number G
\* of generation phases satisfies 1 <= G <= max_iterations; iteration = G - 1
\* when the last answer was accepted (the critic did not ask for revision, or
\* reflection is disabled), and iteration = G = max_iterations when the run
\* ended by budget exhaustion, which happens only if the critic asked to
\* revise the final answer.
C27_IterationCountsRevisions ==
  (pc = "returned" /\ passes >= 1) =>
    /\ generations = passes
    /\ 1 <= generations
    /\ generations <= max_iterations
    /\ accepted =>
         /\ iteration = generations - 1
         /\ REFLECTION_ENABLED => ~revise
    /\ ~accepted =>
         /\ iteration = generations
         /\ generations = max_iterations
         /\ REFLECTION_ENABLED /\ revise
    /\ iteration = max_iterations => (REFLECTION_ENABLED /\ revise)

\* C27 witness: two generations with a budget of two, the critic asked to
\* revise both answers and the run ended by budget exhaustion
C27_Witness ==
  /\ pc = "returned"
  /\ ~accepted
  /\ generations = 2
  /\ max_iterations = 2
  /\ iteration = 2
  /\ Len(verdicts) = 2


\* C28: when run returns with reflection enabled, confidence_score is the
\* confidence score of the most recent reflection, which is the reflection on
\* the returned current_answer; confidence_score is written only by the
\* reflection phase, so with reflection disabled it is still the initial 0.0.
C28_ConfidenceIsLastReflection ==
  /\ [](pc = "returned" =>
          /\ (REFLECTION_ENABLED /\ passes >= 1) =>
               /\ reflection # NoReflection
               /\ confidence_score = reflection.confidence_score
               /\ LET k == kinds(reasoning_steps) IN
                    /\ k[Len(k)] = "reflect"
                    /\ k[Len(k) - 1] = "generate"
               /\ current_answer = generations
               /\ Len(verdicts) = generations
          /\ ~REFLECTION_ENABLED => confidence_score = 0)
  /\ [][confidence_score' # confidence_score =>
          (pc = "reflect" /\ pc' = "decide")]_vars

\* C28 witness: the run returned after two reflections with the score of the
\* second one, which is below the revision threshold
C28_Witness ==
  /\ pc = "returned"
  /\ REFLECTION_ENABLED
  /\ generations = 2
  /\ Len(verdicts) = 2
  /\ reflection = Reflection(6, TRUE, 1, 0)
  /\ confidence_score = 6


\* ===================================================== SpecPair
\* AgentOrchestrator().run(query) followed by ReasoningAgent().run(query) on
\* a query without tool keyword, with the same configuration
\* (MAX_REASONING_STEPS, REFLECTION_ENABLED); the critic gives the second run
\* the verdicts it gave the first (LoopReflect).

InitPair ==
  /\ max_iterations_arg = NoArg
  /\ MAX_REASONING_STEPS \in 0..MaxN
  /\ REFLECTION_ENABLED \in BOOLEAN
  /\ \E q \in {p \in Queries : ~should_use_tools(p)} :
       FreshState(q, max_iter_of(max_iterations_arg, MAX_REASONING_STEPS))
  /\ NoCalls
  /\ RunIdle("plan")
  /\ tools = DefaultRegistry
  /\ RegistryIdle

\* the number of steps of one kind in a reasoning trace
count_steps(steps, kind) ==
  Cardinality({i \in 1..Len(steps) : steps[i].step_type = kind})

\* what the comparison keeps of a returned state
outcome_of(it, ic, fb, gens, steps, vs) ==
  [made |-> TRUE, iteration |-> it, is_complete |-> ic, feedback |-> Len(fb),
   generations |-> gens, reflections |-> count_steps(steps, "reflect"),
   verdicts |-> vs]

\* the first run has returned; ReasoningAgent.run starts on a fresh
\* AgentState(query, max_iterations=MAX_REASONING_STEPS)
Handover ==
  /\ pc = "returned"
  /\ ~first_outcome.made
  /\ first_outcome' = outcome_of(iteration, is_complete, reflection_feedback,
                                 generations, reasoning_steps, verdicts)
  /\ reasoning_steps' = <<>>
  /\ current_answer' = None
  /\ confidence_score' = 0
  /\ iteration' = 0
  /\ max_iterations' = MAX_REASONING_STEPS
  /\ is_complete' = FALSE
  /\ reflection_feedback' = <<>>
  /\ sc_called' = FALSE
  /\ sc_result' = FALSE
  /\ inc_calls' = 0
  /\ direct_write' = FALSE
  /\ unguarded' = FALSE
  /\ pc' = "l_plan"
  /\ collections' = <<>>
  /\ context_docs' = <<>>
  /\ reflection' = NoReflection
  /\ revise' = FALSE
  /\ passes' = 0
  /\ generations' = 0
  /\ retrieval_outs' = <<>>
  /\ context_pass' = 0
  /\ prompt' = NoPrompt
  /\ completion_calls' = 0
  /\ service_failed' = FALSE
  /\ verdicts' = <<>>
  /\ UNCHANGED <<query, max_iterations_arg, MAX_REASONING_STEPS,
                 REFLECTION_ENABLED, needs_tools, tool_results, all_revise,
                 trace_log, selection, raise_cause, tools, exec_call, exec_out,
                 last_registered, replaced, tool_vars, eval_vars>>

NextPair ==
  \/ Plan
  \/ LoopHead
  \/ Retrieve
  \/ Generate
  \/ Reflect
  \/ Decide
  \/ Feedback
  \/ Increment
  \/ Accept
  \/ Finalize
  \/ Handover
  \/ LoopPlan
  \/ LoopLoopHead
  \/ LoopExecute
  \/ LoopReflect
  \/ LoopDecide
  \/ LoopIncrement
  \/ LoopFeedback
  \/ LoopAccept

SpecPair == InitPair /\ [][NextPair]_vars

\* C29: ReasoningAgent.run and AgentOrchestrator.run, with the same
\* max_iterations, the same reflection setting, the same critic verdicts and
\* no tools needed, execute the same number of generations and reflections
\* and return states with equal iteration, is_complete and number of
\* reflection_feedback entries.
C29_SameTermination ==
  (pc = "l_returned" /\ first_outcome.made) =>
    /\ generations = first_outcome.generations
    /\ count_steps(reasoning_steps, "reflect") = first_outcome.reflections
    /\ verdicts = first_outcome.verdicts
    /\ iteration = first_outcome.iteration
    /\ is_complete = first_outcome.is_complete
    /\ Len(reflection_feedback) = first_outcome.feedback

\* C29 witness: both runs made three generations, two of them revisions, and
\* accepted the third answer
C29_Witness ==
  /\ pc = "l_returned"
  /\ first_outcome.made
  /\ first_outcome.generations = 3
  /\ first_outcome.verdicts = <<TRUE, TRUE, FALSE>>
  /\ generations = 3
  /\ iteration = 2
  /\ is_complete


\* ===================================================== SpecEvaluate
\* AgentOrchestrator.run on a query with a tool keyword, the metadata of its
\* tool_call steps kept, and AgentEvaluator.evaluate_tool_usage called on the
\* state it returned.

RECURSIVE concat(_)
\* all_tools.extend(tools) over the steps
concat(lists) ==
  IF lists = <<>> THEN <<>>
  ELSE Head(lists) \o concat(Tail(lists))

\* a / b as the fraction it is; 0.0 is 0/1
Fraction(a, b) == [num |-> a, den |-> b]

\* AgentEvaluator.evaluate_tool_usage: meta holds metadata.get("tools", [])
\* of the tool_call steps, in order. Every step adds one to total_calls and
\* the length of its tools list to successful_calls.
evaluate_tool_usage(meta) ==
  IF Len(meta) = 0
    THEN [called |-> TRUE, tools_used |-> 0, tool_calls |-> 0,
          successful_calls |-> 0, success_rate |-> Fraction(0, 1)]
  ELSE
    LET all_tools == concat(meta)
        successful_calls == Len(all_tools)
        total_calls == Len(meta)
    IN [called |-> TRUE,
        tools_used |-> Cardinality({all_tools[i] : i \in 1..Len(all_tools)}),
        tool_calls |-> total_calls,
        successful_calls |-> successful_calls,
        success_rate |-> IF total_calls > 0
                           THEN Fraction(successful_calls, total_calls)
                           ELSE Fraction(0, 1)]

InitEvaluate ==
  /\ max_iterations_arg = NoArg
  /\ MAX_REASONING_STEPS \in 1..MaxN
  /\ REFLECTION_ENABLED \in BOOLEAN
  /\ \E q \in {p \in Queries : should_use_tools(p)} :
       FreshState(q, max_iter_of(max_iterations_arg, MAX_REASONING_STEPS))
  /\ NoCalls
  /\ RunIdle("plan")
  /\ tools = DefaultRegistry
  /\ RegistryIdle

\* evaluator.evaluate_tool_usage(state) on the returned state
Evaluate ==
  /\ pc = "returned"
  /\ eval_out' = evaluate_tool_usage(tool_meta)
  /\ pc' = "evaluated"
  /\ UNCHANGED <<state_vars, call_vars, max_iterations_arg,
                 MAX_REASONING_STEPS, REFLECTION_ENABLED, needs_tools,
                 collections, context_docs, tool_results, reflection, revise,
                 passes, generations, all_revise, trace_log, phase_vars,
                 tools, exec_call, exec_out, last_registered, replaced,
                 tool_vars, first_outcome, tool_meta>>

NextEvaluate ==
  \/ Plan
  \/ LoopHead
  \/ Retrieve
  \/ CallToolsMeta
  \/ Generate
  \/ Reflect
  \/ Decide
  \/ Feedback
  \/ Increment
  \/ Accept
  \/ Finalize
  \/ Evaluate

SpecEvaluate == InitEvaluate /\ [][NextEvaluate]_vars

\* C30 (as claimed): for every AgentState a run produced,
\* evaluate_tool_usage returns a success_rate within [0, 1] (successful calls
\* never exceed total calls), also when several tools were called in one
\* tool_call step or when tool invocations failed.
C30_Original ==
  pc = "evaluated" =>
    /\ 0 <= eval_out.success_rate.num
    /\ eval_out.success_rate.num <= eval_out.success_rate.den
    /\ eval_out.successful_calls <= eval_out.tool_calls

====
